---- MODULE Spec2Model ----
(***************************************************************************)
(* Search routes of the Me-API playground (routes/search.js) over the      *)
(* pooled MySQL helper (database/db.js).                                   *)
(*                                                                         *)
(* Text is a sequence of one-character strings, so that trimming, case     *)
(* folding, indexOf and LIKE are computed, not assumed.  Tags that the     *)
(* code compares as whole literals (the type filter, the row type tag,     *)
(* the fixed error texts) are TLA+ strings.                                *)
(***************************************************************************)
EXTENDS Integers, Sequences, FiniteSets, TLC

\* ------------------------------------------------------------------ bounds

\* Number of client requests in flight together.
MaxReq == 2

\* Rows per table in the store.
MaxRows == 2

\* Direct callers of db.run, db.get and db.all beside initialize().
MaxCalls == 2

\* --------------------------------------------------------- program constants

\* dbConfig.connectionLimit
connectionLimit == 10

\* The statements of schema: five CREATE TABLE and five CREATE INDEX.
SchemaStatements == 10

\* limit = 20 in the destructuring of req.query
DefaultLimit == 20

\* query.trim().length < 2
MinQueryLength == 2

\* res.status(400), res.status(500), and res.json's default status
BadRequest == 400

InternalServerError == 500

OK == 200

\* ------------------------------------------------------------------- values

\* A request parameter that is not in the query string.
Undefined == <<"undefined">>

\* The same for the type parameter, which the code compares with literals.
UndefinedType == "(undefined)"

\* SQL NULL in a nullable text column.
Null == <<"NULL">>

\* JavaScript truthiness of an optional string parameter.
Truthy(s) == s # Undefined /\ s # <<>>

TruthyType(t) == t # UndefinedType /\ t # ""

Min(a, b) == IF a < b THEN a ELSE b

Max(a, b) == IF a > b THEN a ELSE b

\* ------------------------------------------------------------ JS string ops

UpperCaseLetters ==
    <<"A", "B", "C", "D", "E", "F", "G", "H", "I", "J", "K", "L", "M",
      "N", "O", "P", "Q", "R", "S", "T", "U", "V", "W", "X", "Y", "Z">>

LowerCaseLetters ==
    <<"a", "b", "c", "d", "e", "f", "g", "h", "i", "j", "k", "l", "m",
      "n", "o", "p", "q", "r", "s", "t", "u", "v", "w", "x", "y", "z">>

\* The lower-case letter of each upper-case letter.
LowerCaseOf ==
    [c \in {UpperCaseLetters[i] : i \in 1..26} |->
        LowerCaseLetters[CHOOSE i \in 1..26 : UpperCaseLetters[i] = c]]

LowerChar(c) == IF c \in DOMAIN LowerCaseOf THEN LowerCaseOf[c] ELSE c

\* String.prototype.toLowerCase
ToLowerCase(s) == [i \in 1..Len(s) |-> LowerChar(s[i])]

IsWhiteSpace(c) == c \in {" ", "\t", "\n"}

RECURSIVE TrimStart(_)
TrimStart(s) ==
    IF s # <<>> /\ IsWhiteSpace(Head(s)) THEN TrimStart(Tail(s)) ELSE s

RECURSIVE TrimEnd(_)
TrimEnd(s) ==
    IF s # <<>> /\ IsWhiteSpace(s[Len(s)])
    THEN TrimEnd(SubSeq(s, 1, Len(s) - 1))
    ELSE s

\* String.prototype.trim
Trim(s) == TrimEnd(TrimStart(s))

\* Whether t occurs in s at zero-based position i.
OccursAt(s, t, i) ==
    /\ i + Len(t) <= Len(s)
    /\ \A k \in 1..Len(t) : s[i + k] = t[k]

\* String.prototype.indexOf: the first zero-based position, or -1.
IndexOf(s, t) ==
    LET hits == {i \in 0..Len(s) : OccursAt(s, t, i)}
    IN  IF hits = {} THEN -1 ELSE CHOOSE i \in hits : \A j \in hits : i <= j

IsDigit(c) == c \in {"0", "1", "2", "3", "4", "5", "6", "7", "8", "9"}

DigitValue(c) ==
    CASE c = "0" -> 0 [] c = "1" -> 1 [] c = "2" -> 2 [] c = "3" -> 3
      [] c = "4" -> 4 [] c = "5" -> 5 [] c = "6" -> 6 [] c = "7" -> 7
      [] c = "8" -> 8 [] c = "9" -> 9

\* The value of the longest prefix of decimal digits of s, continuing from acc.
RECURSIVE DigitsValue(_, _)
DigitsValue(s, acc) ==
    IF s # <<>> /\ IsDigit(Head(s))
    THEN DigitsValue(Tail(s), 10 * acc + DigitValue(Head(s)))
    ELSE acc

\* parseInt(string): leading white space is skipped, then an optional sign,
\* then the longest run of decimal digits; NaN when there is no digit.
ParseIntString(s) ==
    LET t == TrimStart(s)
        signed == t # <<>> /\ Head(t) \in {"+", "-"}
        body == IF signed THEN Tail(t) ELSE t
        sign == IF signed /\ Head(t) = "-" THEN -1 ELSE 1
    IN  IF body # <<>> /\ IsDigit(Head(body))
        THEN [isNaN |-> FALSE, value |-> sign * DigitsValue(body, 0)]
        ELSE [isNaN |-> TRUE, value |-> 0]

\* parseInt(limit), limit being the number 20 when the parameter is absent.
ParseInt(limit) ==
    IF limit = Undefined
    THEN [isNaN |-> FALSE, value |-> DefaultLimit]
    ELSE ParseIntString(limit)

\* ToIntegerOrInfinity of a parseInt result: NaN becomes 0.
ToInteger(n) == IF n.isNaN THEN 0 ELSE n.value

\* Array.prototype.slice(0, end): a negative end counts from the back.
Slice0(s, end) ==
    LET rel == ToInteger(end)
        final == IF rel < 0 THEN Max(Len(s) + rel, 0) ELSE Min(rel, Len(s))
    IN  SubSeq(s, 1, final)

\* --------------------------------------------------------------- the store

\* Literals of the SELECT lists.
ExpertLevel ==
    <<"E", "x", "p", "e", "r", "t", " ", "l", "e", "v", "e", "l">>

AdvancedLevel ==
    <<"A", "d", "v", "a", "n", "c", "e", "d", " ", "l", "e", "v", "e", "l">>

IntermediateLevel ==
    <<"I", "n", "t", "e", "r", "m", "e", "d", "i", "a", "t", "e", " ",
      "l", "e", "v", "e", "l">>

BeginnerLevel ==
    <<"B", "e", "g", "i", "n", "n", "e", "r", " ", "l", "e", "v", "e", "l">>

BasicLevel ==
    <<"B", "a", "s", "i", "c", " ", "l", "e", "v", "e", "l">>

ProfileInformation ==
    <<"P", "r", "o", "f", "i", "l", "e", " ", "I", "n", "f", "o", "r", "m",
      "a", "t", "i", "o", "n">>

ProjectCategory ==
    <<"P", "r", "o", "j", "e", "c", "t">>

WorkExperience ==
    <<"W", "o", "r", "k", " ", "E", "x", "p", "e", "r", "i", "e", "n", "c", "e">>

All ==
    <<"a", "l", "l">>

\* The four searchable entity types, in the order the handlers query them.
AllTypes == <<"profile", "skill", "project", "work">>

Types == {AllTypes[i] : i \in 1..Len(AllTypes)}

\* Rows of table profile (id, name, email, education), in primary-key order.
ProfileRows ==
    << [id |-> 1, name |-> <<"b", "a", "b">>, email |-> <<"a">>,
        education |-> <<"b">>],
       [id |-> 2, name |-> <<"b">>, email |-> <<"A", "b">>,
        education |-> Null],
       [id |-> 3, name |-> <<"b", "b">>, email |-> <<"b">>,
        education |-> <<"a", "b">>] >>

\* Rows of table skills (id, name, proficiency, category).
SkillRows ==
    << [id |-> 1, name |-> <<"a", "b", "b">>, proficiency |-> 5,
        category |-> <<"b", "b">>],
       [id |-> 2, name |-> <<"b", "b">>, proficiency |-> 3,
        category |-> <<"a", "b">>],
       [id |-> 3, name |-> <<"a">>, proficiency |-> 1,
        category |-> <<"a", "b", "b">>] >>

\* Rows of table projects (id, title, description).
ProjectRows ==
    << [id |-> 1, title |-> <<"a", "b">>, description |-> <<"a">>],
       [id |-> 2, title |-> <<"b">>, description |-> <<"b", "a", "b">>],
       [id |-> 3, title |-> <<"A", "b">>, description |-> Null] >>

\* Rows of table work_experience (id, company, position, description).
WorkRows ==
    << [id |-> 1, company |-> <<"a", "b">>, position |-> <<"b", "A", "b">>,
        description |-> Null],
       [id |-> 2, company |-> <<"b">>, position |-> <<"a">>,
        description |-> <<"a", "b">>],
       [id |-> 3, company |-> <<"b">>, position |-> <<"b">>,
        description |-> <<"b">>] >>

\* The first n elements of s, or all of s when it has fewer.
Take(s, n) == SubSeq(s, 1, Min(Max(n, 0), Len(s)))

\* The store the requests run against: MaxRows rows in each table.
SeededStore ==
    [profile |-> Take(ProfileRows, MaxRows),
     skill   |-> Take(SkillRows, MaxRows),
     project |-> Take(ProjectRows, MaxRows),
     work    |-> Take(WorkRows, MaxRows)]

\* --------------------------------------------------------------------- SQL

\* The text columns carry no COLLATE clause, so they compare under the
\* server's default collation, which folds case.
Collate(s) == ToLowerCase(s)

\* s LIKE p for non-NULL s: % matches any run of characters, _ any one.
RECURSIVE LikeMatch(_, _)
LikeMatch(s, p) ==
    IF p = <<>> THEN s = <<>>
    ELSE IF Head(p) = "%"
         THEN \E k \in 0..Len(s) : LikeMatch(SubSeq(s, k + 1, Len(s)), Tail(p))
         ELSE /\ s # <<>>
              /\ Head(p) = "_" \/ Head(p) = Head(s)
              /\ LikeMatch(Tail(s), Tail(p))

\* column LIKE ?: NULL never matches.
Like(col, pattern) == col # Null /\ LikeMatch(Collate(col), Collate(pattern))

\* column = ?: NULL never matches.
SqlEquals(col, value) == col # Null /\ Collate(col) = Collate(value)

\* COALESCE(x, '')
Coalesce(x) == IF x = Null THEN <<>> ELSE x

\* `%${query.trim()}%`
SearchTerm(query) == <<"%">> \o Trim(query) \o <<"%">>

\* The CASE expression over skills.proficiency.
ProficiencyLabel(proficiency) ==
    CASE proficiency = 5 -> ExpertLevel
      [] proficiency = 4 -> AdvancedLevel
      [] proficiency = 3 -> IntermediateLevel
      [] proficiency = 2 -> BeginnerLevel
      [] OTHER -> BasicLevel

\* ProjectRow with the projects query carrying the skills query's tag.
ProjectRowMistagged(type, row) ==
    CASE type = "profile" ->
           [type |-> "profile", title |-> row.name, description |-> row.email,
            category |-> ProfileInformation, id |-> row.id]
      [] type = "skill" ->
           [type |-> "skill", title |-> row.name,
            description |-> ProficiencyLabel(row.proficiency),
            category |-> row.category, id |-> row.id]
      [] type = "project" ->
           [type |-> "skill", title |-> row.title,
            description |-> row.description,
            category |-> ProjectCategory, id |-> row.id]
      [] type = "work" ->
           [type |-> "work", title |-> row.position,
            description |-> row.company \o <<" ", "-", " ">>
                            \o Coalesce(row.description),
            category |-> WorkExperience, id |-> row.id]

\* The SELECT list of each query: the common result shape.
ProjectRow(type, row) ==
    CASE type = "profile" ->
           [type |-> "profile", title |-> row.name, description |-> row.email,
            category |-> ProfileInformation, id |-> row.id]
      [] type = "skill" ->
           [type |-> "skill", title |-> row.name,
            description |-> ProficiencyLabel(row.proficiency),
            category |-> row.category, id |-> row.id]
      [] type = "project" ->
           [type |-> "project", title |-> row.title,
            description |-> row.description,
            category |-> ProjectCategory, id |-> row.id]
      [] type = "work" ->
           [type |-> "work", title |-> row.position,
            description |-> row.company \o <<" ", "-", " ">>
                            \o Coalesce(row.description),
            category |-> WorkExperience, id |-> row.id]

\* The WHERE clause of each query.  In the skill query AND binds tighter
\* than OR: name LIKE ? OR (category LIKE ? AND category = ?).
Where(type, row, searchTerm, category) ==
    CASE type = "profile" ->
           \/ Like(row.name, searchTerm)
           \/ Like(row.email, searchTerm)
           \/ Like(row.education, searchTerm)
      [] type = "skill" ->
           IF Truthy(category)
           THEN \/ Like(row.name, searchTerm)
                \/ /\ Like(row.category, searchTerm)
                   /\ SqlEquals(row.category, category)
           ELSE \/ Like(row.name, searchTerm)
                \/ Like(row.category, searchTerm)
      [] type = "project" ->
           \/ Like(row.title, searchTerm)
           \/ Like(row.description, searchTerm)
      [] type = "work" ->
           \/ Like(row.company, searchTerm)
           \/ Like(row.position, searchTerm)
           \/ Like(row.description, searchTerm)

\* db.all's rows for the query of one type: the matching rows of the type's
\* table, in table order, in the common shape.
RECURSIVE SelectRows(_, _, _, _)
SelectRows(type, rows, searchTerm, category) ==
    IF rows = <<>> THEN <<>>
    ELSE (IF Where(type, Head(rows), searchTerm, category)
          THEN <<ProjectRow(type, Head(rows))>>
          ELSE <<>>)
         \o SelectRows(type, Tail(rows), searchTerm, category)

\* ------------------------------------------------------------ the handlers

\* InvalidQuery measuring the query as sent, without trimming it.
InvalidQueryUntrimmed(query) ==
    \/ ~Truthy(query)
    \/ Len(query) < MinQueryLength

\* !query || query.trim().length < 2
InvalidQuery(query) ==
    \/ ~Truthy(query)
    \/ Len(Trim(query)) < MinQueryLength

\* InvalidType with 'work' left out of the list of valid values.
InvalidTypeShortList(type) ==
    TruthyType(type) /\ type \notin {"profile", "skill", "project"}

\* type && !['profile', 'skill', 'project', 'work'].includes(type)
InvalidType(type) == TruthyType(type) /\ type \notin Types

\* BranchTaken with the comparison against the branch's own type dropped.
BranchTakenAlways(type, t) == TRUE

\* !type || type === t, the guard of each branch of the advanced search.
BranchTaken(type, t) == ~TruthyType(type) \/ type = t

\* The db.all calls a request makes, in order: all four in the global
\* search, the branches its type filter lets through in the advanced one.
Branches(input) ==
    IF input.endpoint = "search"
    THEN AllTypes
    ELSE LET Taken(t) == BranchTaken(input.type, t)
         IN  SelectSeq(AllTypes, Taken)

\* The category bound into the skill query: only the advanced search has one.
CategoryOf(input) ==
    IF input.endpoint = "search" THEN Undefined ELSE input.category

\* The comparator of allResults.sort.  It reads query, not query.trim().
Compare(a, b, query) ==
    LET q == ToLowerCase(query)
        aTitle == ToLowerCase(a.title)
        bTitle == ToLowerCase(b.title)
        aExact == aTitle = q
        bExact == bTitle = q
    IN  IF aExact /\ ~bExact THEN -1
        ELSE IF ~aExact /\ bExact THEN 1
        ELSE IndexOf(aTitle, q) - IndexOf(bTitle, q)

\* x put into an already sorted sequence, behind the elements it equals.
RECURSIVE SortedInsert(_, _, _)
SortedInsert(sorted, x, query) ==
    IF sorted = <<>> THEN <<x>>
    ELSE IF Compare(sorted[Len(sorted)], x, query) > 0
         THEN SortedInsert(SubSeq(sorted, 1, Len(sorted) - 1), x, query)
              \o <<sorted[Len(sorted)]>>
         ELSE Append(sorted, x)

\* Array.prototype.sort with the comparator: a stable sort.
RECURSIVE Sort(_, _)
Sort(rows, query) ==
    IF rows = <<>> THEN <<>>
    ELSE SortedInsert(Sort(SubSeq(rows, 1, Len(rows) - 1), query),
                      rows[Len(rows)], query)

InvalidQueryResponse ==
    [status |-> BadRequest,
     error |-> "Invalid search query",
     message |-> "Search query must be at least 2 characters long"]

InvalidTypeResponse ==
    [status |-> BadRequest,
     error |-> "Invalid type filter",
     message |-> "Type must be one of: profile, skill, project, work"]

\* ServerError passing the cause on to the caller.
ServerErrorWithDetail(endpoint, error) ==
    [status |-> InternalServerError,
     error |-> "Internal server error",
     message |-> error.cause]

\* The body of the catch block; the error goes to the log only.
ServerError(endpoint, error) ==
    [status |-> InternalServerError,
     error |-> "Internal server error",
     message |-> IF endpoint = "search"
                 THEN "Failed to perform search"
                 ELSE "Failed to perform advanced search"]

\* console.error in the catch block.
LogLine(endpoint, error) ==
    [message |-> IF endpoint = "search"
                 THEN "Error performing search:"
                 ELSE "Error performing advanced search:",
     error |-> error]

\* The 200 response of the global search: the merged rows, sorted.
SearchResponse(input, allResults) ==
    [status |-> OK,
     success |-> TRUE,
     query |-> Trim(input.q),
     count |-> Len(allResults),
     data |-> Sort(allResults, input.q)]

\* The 200 response of the advanced search: the merged rows, cut to limit.
AdvancedResponse(input, merged) ==
    LET results == Slice0(merged, ParseInt(input.limit))
    IN  [status |-> OK,
         success |-> TRUE,
         query |-> Trim(input.q),
         type |-> IF TruthyType(input.type) THEN input.type ELSE "all",
         category |-> IF Truthy(input.category) THEN input.category ELSE All,
         count |-> Len(results),
         data |-> results]

SuccessResponse(input, merged) ==
    IF input.endpoint = "search"
    THEN SearchResponse(input, merged)
    ELSE AdvancedResponse(input, merged)

\* A release that leaves the connection checked out.
ReleasedNot(n) == n

\* connection.release()
Released(n) == n - 1

\* What the handler does when it comes to its k-th db.all call with the
\* rows merged so far: past the last branch it responds; otherwise db.all
\* calls getPool(), which throws while the pool is not there, and then
\* waits for a connection.
Proceed(input, k, merged, poolState) ==
    IF k > Len(Branches(input))
    THEN [pc |-> "done", cur |-> 0,
          responses |-> <<SuccessResponse(input, merged)>>, log |-> <<>>]
    ELSE IF poolState = "none"
    THEN LET error == [cause |-> "pool", type |-> Branches(input)[k]]
         IN  [pc |-> "done", cur |-> 0,
              responses |-> <<ServerError(input.endpoint, error)>>,
              log |-> <<LogLine(input.endpoint, error)>>]
    ELSE [pc |-> "getConnection", cur |-> k, responses |-> <<>>, log |-> <<>>]

\* The synchronous start of a handler: validation, then the first db.all.
Enter(input, poolState) ==
    IF InvalidQuery(input.q)
    THEN [pc |-> "done", cur |-> 0,
          responses |-> <<InvalidQueryResponse>>, log |-> <<>>]
    ELSE IF input.endpoint = "advanced" /\ InvalidType(input.type)
    THEN [pc |-> "done", cur |-> 0,
          responses |-> <<InvalidTypeResponse>>, log |-> <<>>]
    ELSE Proceed(input, 1, <<>>, poolState)

\* ------------------------------------------------------------------ inputs

Requests == 1..MaxReq

\* Values of q: absent, empty, too short once trimmed, and two good ones.
Queries ==
    {Undefined, <<>>, <<" ", "a">>, <<"A", "b">>, <<" ", "A", "b">>}

TypeParams ==
    {UndefinedType, "", "profile", "skill", "project", "work", "bogus"}

CategoryParams == {Undefined, <<>>, <<"a", "b">>}

LimitParams == {Undefined, <<"1">>, <<"2">>, <<"-", "1">>, <<"x">>}

SearchInputs ==
    {[endpoint |-> "search", q |-> q, type |-> UndefinedType,
      category |-> Undefined, limit |-> Undefined] : q \in Queries}

AdvancedInputs ==
    [endpoint : {"advanced"}, q : Queries, type : TypeParams,
     category : CategoryParams, limit : LimitParams]

\* Request 1 is any request; the others are filtered searches beside it.
BesideInputs ==
    {[endpoint |-> "advanced", q |-> <<"A", "b">>, type |-> "project",
      category |-> Undefined, limit |-> Undefined]}

NoRequest ==
    [endpoint |-> "none", q |-> Undefined, type |-> UndefinedType,
     category |-> Undefined, limit |-> Undefined]

\* The callers of db.run, db.get and db.all outside the search routes.
Callers == 1..MaxCalls

\* initialize() before it is called: where it is, the schema statement it is
\* at, the warnings it printed, the connection it holds, and how many
\* connections it has acquired and released.
NoInitialize ==
    [pc |-> "idle", stmt |-> 0, warnings |-> 0,
     held |-> 0, acquired |-> 0, released |-> 0]

\* A caller before its call: the function, where it is, the connection it
\* holds, and how many connections it has acquired and released.
NoCall ==
    [fn |-> "none", pc |-> "idle", held |-> 0, acquired |-> 0, released |-> 0]

\* ------------------------------------------------------------------- state

VARIABLES
    tables,      \* the rows of the four searched tables
    pool,        \* db.js's pool: "none" until initialize() creates it
    checkedOut,  \* connections of the pool that are in use
    req,         \* req.query of each request
    pc,          \* where each request's handler is
    cur,         \* the db.all call the handler is in (index into Branches)
    merged,      \* the rows the handler has collected so far
    issued,      \* the types whose query was sent to the database, in order
    held,        \* connections the request's db.all call holds
    responses,   \* the responses sent for the request
    log,         \* the errors the handler logged
    init,        \* the call of db.initialize()
    calls        \* the direct calls of db.run, db.get and db.all

vars ==
    <<tables, pool, checkedOut, req, pc, cur, merged, issued, held,
      responses, log, init, calls>>

Init ==
    /\ tables = SeededStore
    /\ pool \in {"none", "ready"}
    /\ checkedOut = 0
    /\ req = [r \in Requests |-> NoRequest]
    /\ pc = [r \in Requests |-> "idle"]
    /\ cur = [r \in Requests |-> 0]
    /\ merged = [r \in Requests |-> <<>>]
    /\ issued = [r \in Requests |-> <<>>]
    /\ held = [r \in Requests |-> 0]
    /\ responses = [r \in Requests |-> <<>>]
    /\ log = [r \in Requests |-> <<>>]
    /\ init = NoInitialize
    /\ calls = [p \in Callers |-> NoCall]

\* The handler of request r moves on as Proceed or Enter decided.
Step(r, next) ==
    /\ pc' = [pc EXCEPT ![r] = next.pc]
    /\ cur' = [cur EXCEPT ![r] = next.cur]
    /\ responses' = [responses EXCEPT ![r] = @ \o next.responses]
    /\ log' = [log EXCEPT ![r] = @ \o next.log]

\* A request arrives and its handler runs up to its first await.
Arrive(r, input) ==
    /\ req' = [req EXCEPT ![r] = input]
    /\ Step(r, Enter(input, pool))
    /\ UNCHANGED <<init, calls, tables, pool, checkedOut, merged, issued, held>>

\* GET /api/search
Search(r) ==
    /\ pc[r] = "idle"
    /\ r = 1
    /\ \E input \in SearchInputs : Arrive(r, input)

\* GET /api/search/advanced
Advanced(r) ==
    /\ pc[r] = "idle"
    /\ \E input \in IF r = 1 THEN AdvancedInputs ELSE BesideInputs :
           Arrive(r, input)

\* db.all: getConnection() resolves and connection.query is called.
GetConnection(r) ==
    /\ pc[r] = "getConnection"
    /\ checkedOut < connectionLimit
    /\ checkedOut' = checkedOut + 1
    /\ held' = [held EXCEPT ![r] = @ + 1]
    /\ issued' = [issued EXCEPT ![r] = Append(@, Branches(req[r])[cur[r]])]
    /\ pc' = [pc EXCEPT ![r] = "query"]
    /\ UNCHANGED <<init, calls, tables, pool, req, cur, merged, responses, log>>

\* db.all: getConnection() rejects; the handler's catch block answers.
GetConnectionFails(r) ==
    /\ pc[r] = "getConnection"
    /\ LET error == [cause |-> "connection", type |-> Branches(req[r])[cur[r]]]
       IN  Step(r, [pc |-> "done", cur |-> 0,
                    responses |-> <<ServerError(req[r].endpoint, error)>>,
                    log |-> <<LogLine(req[r].endpoint, error)>>])
    /\ UNCHANGED <<init, calls, tables, pool, checkedOut, req, merged, issued, held>>

\* db.all: the query returns its rows, the connection is released, the
\* handler merges the rows and goes on to its next db.all or to its response.
QueryReturns(r) ==
    /\ pc[r] = "query"
    /\ LET type == Branches(req[r])[cur[r]]
           rows == SelectRows(type, tables[type], SearchTerm(req[r].q),
                              CategoryOf(req[r]))
           all == merged[r] \o rows
       IN  /\ merged' = [merged EXCEPT ![r] = all]
           /\ Step(r, Proceed(req[r], cur[r] + 1, all, pool))
    /\ checkedOut' = Released(checkedOut)
    /\ held' = [held EXCEPT ![r] = Released(@)]
    /\ UNCHANGED <<init, calls, tables, pool, req, issued>>

\* db.all: the query rejects, the connection is released in the finally
\* block and the handler's catch block answers.
QueryFails(r) ==
    /\ pc[r] = "query"
    /\ LET error == [cause |-> "query", type |-> Branches(req[r])[cur[r]]]
       IN  Step(r, [pc |-> "done", cur |-> 0,
                    responses |-> <<ServerError(req[r].endpoint, error)>>,
                    log |-> <<LogLine(req[r].endpoint, error)>>])
    /\ checkedOut' = Released(checkedOut)
    /\ held' = [held EXCEPT ![r] = Released(@)]
    /\ UNCHANGED <<init, calls, tables, pool, req, merged, issued>>

Next ==
    \E r \in Requests :
        \/ Search(r)
        \/ Advanced(r)
        \/ GetConnection(r)
        \/ GetConnectionFails(r)
        \/ QueryReturns(r)
        \/ QueryFails(r)

Spec == Init /\ [][Next]_vars

\* ------------------------------------------------------------------ claims

Done(r) == pc[r] = "done"

\* The request was answered with the given status.
Answered(r, status) ==
    /\ Done(r)
    /\ Len(responses[r]) = 1
    /\ responses[r][1].status = status

\* The data of a request answered 200.
Data(r) == responses[r][1].data

\* q is missing, or shorter than two characters once trimmed.
TooShort(q) == q = Undefined \/ Len(Trim(q)) < 2

\* C1: on both endpoints a request whose q is missing or has fewer than two
\* characters after trimming is answered 400, and no query of it is ever
\* sent to the database.
C1_ShortQueryRejected ==
    \A r \in Requests :
        (req[r].endpoint \in {"search", "advanced"} /\ TooShort(req[r].q))
            => /\ Answered(r, 400)
               /\ responses[r][1].error = "Invalid search query"
               /\ issued[r] = <<>>
               /\ held[r] = 0

\* A q of two characters that trimming shortens to one was answered 400.
C1_Witness ==
    \E r \in Requests :
        /\ req[r].q = <<" ", "a">>
        /\ Answered(r, 400)
        /\ issued[r] = <<>>

\* The title equals the query, case-insensitively.
ExactTitle(entry, query) == ToLowerCase(entry.title) = ToLowerCase(query)

\* C2: in the data of a 200 response of the global search, every entry whose
\* title equals the trimmed query case-insensitively comes before every
\* entry whose title does not.
C2_ExactTitleFirst ==
    \A r \in Requests :
        (req[r].endpoint = "search" /\ Answered(r, 200))
            => LET query == responses[r][1].query
               IN  /\ query = Trim(req[r].q)
                   /\ \A i, j \in 1..Len(Data(r)) :
                          (i < j /\ ExactTitle(Data(r)[j], query))
                              => ExactTitle(Data(r)[i], query)

\* The zero-based index of the lowercased query in the lowercased title.
TitleIndex(entry, query) ==
    IndexOf(ToLowerCase(entry.title), ToLowerCase(query))

\* C3: in the data of a 200 response of the global search, two entries with
\* the same exact-title-match status are ordered by the index at which the
\* lowercased trimmed query first occurs in the lowercased title.
C3_OrderedByTitleIndex ==
    \A r \in Requests :
        (req[r].endpoint = "search" /\ Answered(r, 200))
            => LET query == Trim(req[r].q)
               IN  \A i, j \in 1..Len(Data(r)) :
                       (/\ i < j
                        /\ ExactTitle(Data(r)[i], query)
                             = ExactTitle(Data(r)[j], query))
                           => TitleIndex(Data(r)[i], query)
                                <= TitleIndex(Data(r)[j], query)

\* C4: in the data of a 200 response of the advanced search with type=skill
\* and a category C, every entry is a skill whose category equals C.
C4_SkillCategoryFilter ==
    \A r \in Requests :
        (/\ req[r].endpoint = "advanced"
         /\ Answered(r, 200)
         /\ req[r].type = "skill"
         /\ Truthy(req[r].category))
            => \A i \in 1..Len(Data(r)) :
                   /\ Data(r)[i].type = "skill"
                   /\ Data(r)[i].category = req[r].category

\* The limit parameter is absent or a decimal integer, sign included.
IntegerLimit(limit) ==
    \/ limit = Undefined
    \/ LET body == IF limit # <<>> /\ Head(limit) \in {"+", "-"}
                   THEN Tail(limit) ELSE limit
       IN  body # <<>> /\ \A k \in 1..Len(body) : IsDigit(body[k])

\* C5: the data of a 200 response of the advanced search with integer limit
\* N (20 when absent) is the first N entries of the merged, unranked rows,
\* or all of them when there are fewer, and count is the length of data.
C5_LimitTruncates ==
    \A r \in Requests :
        (/\ req[r].endpoint = "advanced"
         /\ Answered(r, 200)
         /\ IntegerLimit(req[r].limit))
            => /\ Data(r) = Take(merged[r], ParseInt(req[r].limit).value)
               /\ responses[r][1].count = Len(Data(r))

\* The request was answered 400 for its type, before any query.
TypeRejected(r) ==
    /\ Answered(r, 400)
    /\ responses[r][1].error = "Invalid type filter"
    /\ responses[r][1].message
         = "Type must be one of: profile, skill, project, work"
    /\ issued[r] = <<>>

\* C6 as stated: in the advanced search with a valid q, every supplied type
\* outside {profile, skill, project, work} is rejected with the 400 that
\* lists the four values, before any query; a type of the set never is.
C6_UnknownTypeRejected ==
    \A r \in Requests :
        (req[r].endpoint = "advanced" /\ ~TooShort(req[r].q))
            => /\ (req[r].type # UndefinedType /\ req[r].type \notin Types)
                      => TypeRejected(r)
               /\ req[r].type \in Types => ~Answered(r, 400)

\* C6 as amended: every supplied non-empty type outside the set is rejected
\* with the 400 that lists the four values, before any query; a type of the
\* set never is; an empty type is not rejected either, it is no filter.
C6_NonEmptyUnknownTypeRejected ==
    \A r \in Requests :
        (req[r].endpoint = "advanced" /\ ~TooShort(req[r].q))
            => /\ (req[r].type \notin Types \cup {UndefinedType, ""})
                      => TypeRejected(r)
               /\ req[r].type \in Types \cup {""} => ~Answered(r, 400)
               /\ (req[r].type = "" /\ Answered(r, 200))
                      => /\ issued[r] = AllTypes
                         /\ responses[r][1].type = "all"

\* A request with a good q and type=bogus was rejected before any query.
C6_Witness ==
    \E r \in Requests :
        /\ req[r].endpoint = "advanced"
        /\ req[r].type = "bogus"
        /\ ~TooShort(req[r].q)
        /\ TypeRejected(r)

\* C7: an advanced search with type T of the set sends at most one query,
\* T's own, and exactly that one when it is answered 200, with every entry
\* of type T; without a type, a request answered 200 has sent exactly the
\* four queries, one per type.
C7_OnlyRequestedTypeQueried ==
    \A r \in Requests :
        req[r].endpoint = "advanced"
            => /\ req[r].type \in Types
                   => /\ issued[r] \in {<<>>, <<req[r].type>>}
                      /\ Answered(r, 200)
                           => /\ issued[r] = <<req[r].type>>
                              /\ \A i \in 1..Len(Data(r)) :
                                     Data(r)[i].type = req[r].type
               /\ (req[r].type = UndefinedType /\ Answered(r, 200))
                   => issued[r] = <<"profile", "skill", "project", "work">>

\* A search with type=skill was answered 200 with rows in its data.
C7_Witness ==
    \E r \in Requests :
        /\ req[r].endpoint = "advanced"
        /\ req[r].type = "skill"
        /\ Answered(r, 200)
        /\ Data(r) # <<>>
        /\ issued[r] = <<"skill">>

\* The position of a type in the order of the queries.
TypeOrder(t) == CHOOSE k \in 1..Len(AllTypes) : AllTypes[k] = t

\* The fixed body of the 500 of each endpoint.
Generic500(endpoint) ==
    [status |-> 500,
     error |-> "Internal server error",
     message |-> IF endpoint = "search"
                 THEN "Failed to perform search"
                 ELSE "Failed to perform advanced search"]

\* C8: a request one of whose queries failed has exactly one response, the
\* fixed 500 of its endpoint, which has no field for the cause or for rows;
\* the failed query was sent at most once and none after it; and no
\* request ever has more than one response.
C8_FailureIsOneGeneric500 ==
    \A r \in Requests :
        /\ Len(responses[r]) <= 1
        /\ log[r] # <<>>
            => /\ Done(r)
               /\ Len(log[r]) = 1
               /\ responses[r] = <<Generic500(req[r].endpoint)>>
               /\ held[r] = 0
               /\ LET failed == log[r][1].error
                      n == Len(issued[r])
                  IN  /\ \A i, j \in 1..n :
                             i < j => TypeOrder(issued[r][i])
                                        < TypeOrder(issued[r][j])
                      /\ \A i \in 1..n :
                             TypeOrder(issued[r][i]) <= TypeOrder(failed.type)
                      /\ IF failed.cause = "query"
                         THEN n > 0 /\ issued[r][n] = failed.type
                         ELSE \A i \in 1..n : issued[r][i] # failed.type

\* A query failed after earlier queries of the request had returned rows.
C8_Witness ==
    \E r \in Requests :
        /\ log[r] # <<>>
        /\ log[r][1].error.cause = "query"
        /\ merged[r] # <<>>
        /\ Answered(r, 500)

\* The title column of a row of each table.
TitleColumn(type, row) ==
    CASE type = "profile" -> row.name
      [] type = "skill" -> row.name
      [] type = "project" -> row.title
      [] type = "work" -> row.position

\* C9: every entry of the data of a 200 response has a type of the four,
\* and its id is the id of a row of that type's table, whose title it has.
C9_EntriesResolve ==
    \A r \in Requests :
        Answered(r, 200)
            => \A i \in 1..Len(Data(r)) :
                   LET entry == Data(r)[i]
                   IN  /\ entry.type \in {"profile", "skill", "project", "work"}
                       /\ \E k \in 1..Len(tables[entry.type]) :
                              /\ tables[entry.type][k].id = entry.id
                              /\ TitleColumn(entry.type, tables[entry.type][k])
                                   = entry.title

\* A 200 response carries entries of all four types.
C9_Witness ==
    \E r \in Requests :
        /\ Answered(r, 200)
        /\ \A t \in Types : \E i \in 1..Len(Data(r)) : Data(r)[i].type = t

\* C10: the queries of a request go out in the order profile, skill,
\* project, work; while the request waits for a connection it holds none,
\* while its query runs it holds one, and it never holds two.
C10_OneConnectionAtATime ==
    \A r \in Requests :
        /\ held[r] \in {0, 1}
        /\ pc[r] = "query" <=> held[r] = 1
        /\ \A i, j \in 1..Len(issued[r]) :
               i < j => TypeOrder(issued[r][i]) < TypeOrder(issued[r][j])

\* Request 1 is in its third query while request 2 is in its own.
C10_Witness ==
    /\ held[1] = 1
    /\ held[2] = 1
    /\ Len(issued[1]) = 3
    /\ checkedOut = 2

\* ------------------------------------------------------------------- db.js

\* initialize(): createPool, then getConnection is awaited.
Initialize ==
    /\ init.pc = "idle"
    /\ pool' = "ready"
    /\ init' = [init EXCEPT !.pc = "getConnection"]
    /\ UNCHANGED <<tables, checkedOut, req, pc, cur, merged, issued, held,
                   responses, log, calls>>

\* initialize(): getConnection resolves; CREATE DATABASE is sent.
InitializeGetConnection ==
    /\ init.pc = "getConnection"
    /\ checkedOut < connectionLimit
    /\ checkedOut' = checkedOut + 1
    /\ init' = [init EXCEPT !.pc = "createDatabase", !.held = @ + 1,
                            !.acquired = @ + 1]
    /\ UNCHANGED <<tables, pool, req, pc, cur, merged, issued, held,
                   responses, log, calls>>

\* initialize(): getConnection rejects; the catch block logs and rethrows.
InitializeGetConnectionFails ==
    /\ init.pc = "getConnection"
    /\ init' = [init EXCEPT !.pc = "threw"]
    /\ UNCHANGED <<tables, pool, checkedOut, req, pc, cur, merged, issued,
                   held, responses, log, calls>>

\* initialize(): CREATE DATABASE IF NOT EXISTS succeeds; USE is sent.
InitializeCreateDatabase ==
    /\ init.pc = "createDatabase"
    /\ init' = [init EXCEPT !.pc = "useDatabase"]
    /\ UNCHANGED <<tables, pool, checkedOut, req, pc, cur, merged, issued,
                   held, responses, log, calls>>

\* initialize(): USE succeeds; the first schema statement is sent.
InitializeUseDatabase ==
    /\ init.pc = "useDatabase"
    /\ init' = [init EXCEPT !.pc = "schema", !.stmt = 1]
    /\ UNCHANGED <<tables, pool, checkedOut, req, pc, cur, merged, issued,
                   held, responses, log, calls>>

\* initialize(): CREATE DATABASE or USE rejects.  Neither is inside the
\* inner try, and the outer catch logs and rethrows: connection.release()
\* is not reached.
InitializeSetupFails ==
    /\ init.pc \in {"createDatabase", "useDatabase"}
    /\ init' = [init EXCEPT !.pc = "threw"]
    /\ UNCHANGED <<tables, pool, checkedOut, req, pc, cur, merged, issued,
                   held, responses, log, calls>>

\* initialize(): a schema statement succeeds, fails with 'Duplicate key
\* name' (ignored) or fails otherwise (a warning); either way the loop goes
\* on, and after the last statement the connection is released.
InitializeSchemaStatement ==
    /\ init.pc = "schema"
    /\ \E outcome \in {"ok", "duplicate", "error"} :
           LET warned == IF outcome = "error"
                         THEN init.warnings + 1 ELSE init.warnings
           IN  IF init.stmt < SchemaStatements
               THEN /\ init' = [init EXCEPT !.stmt = @ + 1,
                                            !.warnings = warned]
                    /\ UNCHANGED checkedOut
               ELSE /\ init' = [init EXCEPT !.pc = "done",
                                            !.warnings = warned,
                                            !.held = Released(@),
                                            !.released = @ + 1]
                    /\ checkedOut' = Released(checkedOut)
    /\ UNCHANGED <<tables, pool, req, pc, cur, merged, issued, held,
                   responses, log, calls>>

\* run, get and all start alike: getPool() throws while there is no pool,
\* otherwise getConnection is awaited.
Call(p, fn) ==
    /\ calls[p].pc = "idle"
    /\ calls' = [calls EXCEPT ![p] =
                    [@ EXCEPT !.fn = fn,
                              !.pc = IF pool = "none"
                                     THEN "threw" ELSE "getConnection"]]
    /\ UNCHANGED <<tables, pool, checkedOut, req, pc, cur, merged, issued,
                   held, responses, log, init>>

\* run(sql, params)
Run(p) == Call(p, "run")

\* get(sql, params)
Get(p) == Call(p, "get")

\* all(sql, params)
All_(p) == Call(p, "all")

\* run, get, all: getConnection resolves and the statement is sent.
CallGetConnection(p) ==
    /\ calls[p].pc = "getConnection"
    /\ checkedOut < connectionLimit
    /\ checkedOut' = checkedOut + 1
    /\ calls' = [calls EXCEPT ![p] =
                    [@ EXCEPT !.pc = "statement", !.held = @ + 1,
                              !.acquired = @ + 1]]
    /\ UNCHANGED <<tables, pool, req, pc, cur, merged, issued, held,
                   responses, log, init>>

\* run, get, all: getConnection rejects, before the try block.
CallGetConnectionFails(p) ==
    /\ calls[p].pc = "getConnection"
    /\ calls' = [calls EXCEPT ![p] = [@ EXCEPT !.pc = "threw"]]
    /\ UNCHANGED <<tables, pool, checkedOut, req, pc, cur, merged, issued,
                   held, responses, log, init>>

\* run, get, all: the statement resolves or rejects; the finally block
\* releases the connection and the call returns or throws.
CallStatementEnds(p) ==
    /\ calls[p].pc = "statement"
    /\ \E end \in {"returned", "threw"} :
           calls' = [calls EXCEPT ![p] =
                        [@ EXCEPT !.pc = end, !.held = Released(@),
                                  !.released = @ + 1]]
    /\ checkedOut' = Released(checkedOut)
    /\ UNCHANGED <<tables, pool, req, pc, cur, merged, issued, held,
                   responses, log, init>>

\* The calls of db.js on their own, from the module as loaded: no pool yet,
\* no search request under way.
DbInit == Init /\ pool = "none"

DbNext ==
    \/ Initialize
    \/ InitializeGetConnection
    \/ InitializeGetConnectionFails
    \/ InitializeCreateDatabase
    \/ InitializeUseDatabase
    \/ InitializeSetupFails
    \/ InitializeSchemaStatement
    \/ \E p \in Callers :
           \/ Run(p)
           \/ Get(p)
           \/ All_(p)
           \/ CallGetConnection(p)
           \/ CallGetConnectionFails(p)
           \/ CallStatementEnds(p)

DbSpec == DbInit /\ [][DbNext]_vars

\* The call is between its start and its return or throw.
InProgress(call) == call.pc \notin {"idle", "returned", "threw", "done"}

\* C11: each call of initialize, run, get and all has released every
\* connection it acquired once it has returned or thrown, and never
\* releases more than it acquired; so whenever no call is in progress, no
\* connection of the pool is checked out.
C11_EveryConnectionReleased ==
    /\ init.released <= init.acquired
    /\ ~InProgress(init) => init.released = init.acquired
    /\ \A p \in Callers :
           /\ calls[p].released <= calls[p].acquired
           /\ ~InProgress(calls[p]) => calls[p].released = calls[p].acquired
    /\ (~InProgress(init) /\ \A p \in Callers : ~InProgress(calls[p]))
           => checkedOut = 0

====
